---------------------------- MODULE Spec2Model ----------------------------
(***************************************************************************)
(* A model of FlowDB-rs: the sharded, replicated key-value store of        *)
(* src/src/main.rs (StorageServer) and the rotating transaction log of     *)
(* src/src/transaction_log.rs (TransactionLog).                            *)
(*                                                                         *)
(* The two components are not wired together in the source, so each has    *)
(* its own specification: Spec runs the store with concurrent callers,     *)
(* SpecLog runs the log with its single writer.  SpecFair is the store     *)
(* under fair scheduling, SpecNew the store from its construction on,      *)
(* SpecPoison the store with callers that fail holding a lock, SpecCorrupt *)
(* the store with bytes inserted beside put, and SpecLogFault the log on   *)
(* a file system that refuses a rename or an open.                         *)
(***************************************************************************)
EXTENDS Integers, Sequences, FiniteSets, TLC

VARIABLES
    \* ---- StorageServer (main.rs) ----
    server,       \* whether StorageServer::new has run, and how it ended
    poisoned,     \* the partitions whose RwLock is poisoned
    partitions,   \* StorageServer.partitions: shard -> id of its primary
    replicas,     \* StorageServer.replicas: the replica count
    heap,         \* the Partition objects: id -> [data, replicas]
    hashOf,       \* the value DefaultHasher gives each key in this run
    lock,         \* the RwLock around each Partition: [w, r]
    pc,           \* where each calling thread stands
    key,          \* the key argument of the thread's call
    val,          \* the value argument of the thread's put
    data,         \* put's local `data`: the compressed value
    part,         \* the thread's local `partition`
    idx,          \* position of put's loop over the replica list
    result,       \* what the thread's last call returned
    committed,    \* history: key -> value of the last put that returned Ok
    \* ---- TransactionLog (transaction_log.rs) ----
    dir,          \* the directory of the log: file name -> inode
    inodes,       \* the files: inode -> the bytes in it, as segments
    file,         \* TransactionLog.file, the BufWriter: [ino, buf]
    path,         \* TransactionLog.path: [parent, name]
    max_size,     \* TransactionLog.max_size
    max_files,    \* TransactionLog.max_files
    lpc,          \* where the log's single writer stands
    rec,          \* the `data` argument of the current or last write
    newfile,      \* rotate's local `file`: the inode just opened
    ret,          \* what the last write returned
    nwrites,      \* history: the number of write calls so far
    records,      \* history: the records handed to write, in call order
    rotated,      \* history: the current or last write renamed the file
    lenBefore,    \* history: the active file's length when the call began
    appended,     \* history: bytes written to the log since the last rotation
    backupNames   \* history: the backup path of each rotation, in order

storeVars == <<server, poisoned, partitions, replicas, heap, hashOf, lock, pc, key, val, data, part,
               idx, result, committed>>
logVars == <<dir, inodes, file, path, max_size, max_files, lpc, rec, newfile,
             ret, nwrites, records, rotated, lenBefore, appended, backupNames>>
vars == <<storeVars, logVars>>

-----------------------------------------------------------------------------
(* Bounds of the model.                                                    *)

MaxPartitions == 2
MaxReplicas == 2
MaxValLen == 2
MaxWrites == 3
MaxRecLen == 2

Threads == {"t1", "t2"}
Keys == {"k1", "k2"}
Bytes == {97}
NoThread == "none"

\* every UTF-8 text of at most MaxValLen bytes over Bytes
Values == UNION {[1..n -> Bytes] : n \in 0..MaxValLen}

-----------------------------------------------------------------------------
(* Compression codec: snap's raw format.  An input shorter than 17 bytes   *)
(* is emitted as the varint of its length followed by one literal element  *)
(* (tag byte (len-1)*4, then the bytes).                                   *)

\* compress with a wrong literal tag: the length instead of length - 1
compressTagOffByOne(v) ==
    IF Len(v) = 0 THEN <<0>>
    ELSE <<Len(v), Len(v) * 4>> \o v

compress(v) ==
    IF Len(v) = 0 THEN <<0>>
    ELSE <<Len(v), (Len(v) - 1) * 4>> \o v

None == [ok |-> FALSE]
Some(v) == [ok |-> TRUE, val |-> v]

\* the literal elements of a block body, or None when it is malformed;
\* a copy element cannot occur in what compress emits and is rejected here
RECURSIVE Elements(_)
Elements(d) ==
    IF Len(d) = 0 THEN Some(<<>>)
    ELSE IF d[1] % 4 # 0 THEN None
    ELSE LET n == (d[1] \div 4) + 1 IN
         IF Len(d) < 1 + n THEN None
         ELSE LET rest == Elements(SubSeq(d, n + 2, Len(d))) IN
              IF rest.ok THEN Some(SubSeq(d, 2, n + 1) \o rest.val)
              ELSE None

decompress(d) ==
    IF Len(d) = 0 THEN None
    ELSE LET body == Elements(SubSeq(d, 2, Len(d))) IN
         IF body.ok /\ Len(body.val) = d[1] THEN body ELSE None

\* String::from_utf8 on the bytes of the model: single-byte code points
from_utf8(b) ==
    IF \A i \in 1..Len(b) : b[i] < 128 THEN Some(b) ELSE None

-----------------------------------------------------------------------------
(* StorageServer                                                           *)

Unlocked == [w |-> NoThread, r |-> {}]

\* an insert that forgets the other entries of the map
InsertAlone(m, k, v) == [x \in {k} |-> v]

\* HashMap::insert
Insert(m, k, v) ==
    [x \in (DOMAIN m) \cup {k} |-> IF x = k THEN v ELSE m[x]]

EmptyMap == [x \in {} |-> <<>>]

\* StorageServer::new: num_replicas Partitions per shard, each given the
\* whole sibling list; the first of them is the shard's entry in partitions
NewHeap(num_partitions, num_replicas) ==
    [p \in (1..num_partitions) \X (1..num_replicas) |->
        [data |-> EmptyMap,
         replicas |-> [i \in 1..num_replicas |-> <<p[1], i>>]]]

NewPartitions(num_partitions) ==
    [s \in 1..num_partitions |-> <<s, 1>>]

\* DefaultHasher is fixed within a run; these are the hashes of the model's
\* keys: they collide under one and three partitions and differ under two
HashTable == [k \in Keys |-> IF k = "k1" THEN 4 ELSE 7]

get_partition(k) ==
    partitions[(hashOf[k] % Len(partitions)) + 1]

\* RwLock::read / RwLock::write can return
CanRead(p) == lock[p].w = NoThread
\* a write lock that does not wait for the readers to leave
CanWriteBesideReaders(p) == lock[p].w = NoThread

\* a write lock that does not wait for another writer to leave
CanWriteBesideWriter(p) == lock[p].r = {}

CanWrite(p) == lock[p].w = NoThread /\ lock[p].r = {}

\* a fan-out loop that does not skip the primary
FirstReplicaNoSkip == 2 - 1

\* replicas.iter().skip(1): the first index the fan-out loop visits
FirstReplica == 2

\* a fan-out loop that stops one replica short
LastReplicaOffByOne(list) == Len(list) - 1

\* the last index the fan-out loop visits: the iterator runs to the end
LastReplica(list) == Len(list)

\* a call's locals before it starts and after it has returned
NoKey == "k1"
NoData == <<>>
NoPart == <<1, 1>>
Pending == [ok |-> FALSE, pending |-> TRUE]
\* put's Ok(())
OkUnit == [ok |-> TRUE, unit |-> TRUE]

DropLocals(t) ==
    /\ key' = [key EXCEPT ![t] = NoKey]
    /\ val' = [val EXCEPT ![t] = NoData]
    /\ data' = [data EXCEPT ![t] = NoData]
    /\ part' = [part EXCEPT ![t] = NoPart]
    /\ idx' = [idx EXCEPT ![t] = FirstReplica]

\* hasher.finish() as usize % self.partitions.len() panics on a store
\* without partitions
CanRoute == Len(partitions) > 0

GetCall(t, k) ==
    /\ server = "built"
    /\ pc[t] = "idle"
    /\ result' = [result EXCEPT ![t] = Pending]
    /\ IF CanRoute
       THEN /\ pc' = [pc EXCEPT ![t] = "get_lock"]
            /\ key' = [key EXCEPT ![t] = k]
            /\ part' = [part EXCEPT ![t] = get_partition(k)]
       ELSE /\ pc' = [pc EXCEPT ![t] = "panicked"]
            /\ UNCHANGED <<key, part>>
    /\ UNCHANGED <<server, poisoned, partitions, replicas, heap, hashOf, lock, val, data, idx, committed, logVars>>

\* read() and write() return Err on a poisoned lock, and unwrap() panics
Poisoned(p) == p \in poisoned

GetLock(t) ==
    /\ pc[t] = "get_lock"
    /\ CanRead(part[t])
    /\ IF Poisoned(part[t])
       THEN /\ pc' = [pc EXCEPT ![t] = "panicked"]
            /\ DropLocals(t)
            /\ UNCHANGED lock
       ELSE /\ lock' = [lock EXCEPT ![part[t]].r = @ \cup {t}]
            /\ pc' = [pc EXCEPT ![t] = "get_read"]
            /\ UNCHANGED <<key, val, data, part, idx>>
    /\ UNCHANGED <<server, poisoned, partitions, replicas, heap, hashOf, result, committed, logVars>>

\* the value get computes from the partition it holds the read lock of
\* a lookup that falls back on another entry of the map
GetValueAnyEntry(t) ==
    LET m == heap[part[t]].data
        k == IF key[t] \in DOMAIN m \/ DOMAIN m = {} THEN key[t]
             ELSE CHOOSE other \in DOMAIN m : TRUE
    IN IF k \notin DOMAIN m THEN None
       ELSE LET raw == decompress(m[k]) IN
            IF raw.ok THEN from_utf8(raw.val) ELSE None

GetValue(t) ==
    LET m == heap[part[t]].data IN
    IF key[t] \notin DOMAIN m THEN None
    ELSE LET raw == decompress(m[key[t]]) IN
         IF raw.ok THEN from_utf8(raw.val) ELSE None

GetReturn(t) ==
    /\ pc[t] = "get_read"
    /\ result' = [result EXCEPT ![t] = GetValue(t)]
    /\ lock' = [lock EXCEPT ![part[t]].r = @ \ {t}]
    /\ pc' = [pc EXCEPT ![t] = "idle"]
    /\ DropLocals(t)
    /\ UNCHANGED <<server, poisoned, partitions, replicas, heap, hashOf, committed, logVars>>

PutCall(t, k, v) ==
    /\ server = "built"
    /\ pc[t] = "idle"
    /\ result' = [result EXCEPT ![t] = Pending]
    /\ IF CanRoute
       THEN /\ pc' = [pc EXCEPT ![t] = "put_lock"]
            /\ key' = [key EXCEPT ![t] = k]
            /\ val' = [val EXCEPT ![t] = v]
            /\ data' = [data EXCEPT ![t] = compress(v)]
            /\ part' = [part EXCEPT ![t] = get_partition(k)]
       ELSE /\ pc' = [pc EXCEPT ![t] = "panicked"]
            /\ UNCHANGED <<key, val, data, part>>
    /\ UNCHANGED <<server, poisoned, partitions, replicas, heap, hashOf, lock, idx, committed, logVars>>

PutLockPrimary(t) ==
    /\ pc[t] = "put_lock"
    /\ CanWrite(part[t])
    /\ IF Poisoned(part[t])
       THEN /\ pc' = [pc EXCEPT ![t] = "panicked"]
            /\ DropLocals(t)
            /\ UNCHANGED lock
       ELSE /\ lock' = [lock EXCEPT ![part[t]].w = t]
            /\ pc' = [pc EXCEPT ![t] = "put_insert"]
            /\ UNCHANGED <<key, val, data, part, idx>>
    /\ UNCHANGED <<server, poisoned, partitions, replicas, heap, hashOf, result, committed, logVars>>

PutInsertPrimary(t) ==
    /\ pc[t] = "put_insert"
    /\ heap' = [heap EXCEPT ![part[t]].data = Insert(@, key[t], data[t])]
    /\ idx' = [idx EXCEPT ![t] = FirstReplica]
    /\ pc' = [pc EXCEPT ![t] = "put_loop"]
    /\ UNCHANGED <<server, poisoned, partitions, replicas, hashOf, lock, key, val, data, part, result, committed, logVars>>

\* a panic unwinds through partition_guard: the primary's lock is released
\* and poisoned
PutLockReplica(t) ==
    /\ pc[t] = "put_loop"
    /\ idx[t] <= LastReplica(heap[part[t]].replicas)
    /\ CanWrite(heap[part[t]].replicas[idx[t]])
    /\ IF Poisoned(heap[part[t]].replicas[idx[t]])
       THEN /\ pc' = [pc EXCEPT ![t] = "panicked"]
            /\ lock' = [lock EXCEPT ![part[t]].w = NoThread]
            /\ poisoned' = poisoned \cup {part[t]}
            /\ DropLocals(t)
       ELSE /\ lock' = [lock EXCEPT ![heap[part[t]].replicas[idx[t]]].w = t]
            /\ pc' = [pc EXCEPT ![t] = "put_replica"]
            /\ UNCHANGED <<poisoned, key, val, data, part, idx>>
    /\ UNCHANGED <<server, partitions, replicas, heap, hashOf, result, committed, logVars>>

PutInsertReplica(t) ==
    LET replica == heap[part[t]].replicas[idx[t]] IN
    /\ pc[t] = "put_replica"
    /\ heap' = [heap EXCEPT ![replica].data = Insert(@, key[t], data[t])]
    /\ lock' = [lock EXCEPT ![replica].w = NoThread]
    /\ idx' = [idx EXCEPT ![t] = @ + 1]
    /\ pc' = [pc EXCEPT ![t] = "put_loop"]
    /\ UNCHANGED <<server, poisoned, partitions, replicas, hashOf, key, val, data, part, result, committed, logVars>>

PutReturn(t) ==
    /\ pc[t] = "put_loop"
    /\ idx[t] > LastReplica(heap[part[t]].replicas)
    /\ lock' = [lock EXCEPT ![part[t]].w = NoThread]
    /\ result' = [result EXCEPT ![t] = OkUnit]
    /\ committed' = Insert(committed, key[t], val[t])
    /\ pc' = [pc EXCEPT ![t] = "idle"]
    /\ DropLocals(t)
    /\ UNCHANGED <<server, poisoned, partitions, replicas, heap, hashOf, logVars>>

InitStore ==
    /\ server = "built"
    /\ poisoned = {}
    /\ \E np \in 1..MaxPartitions, nr \in 1..MaxReplicas :
          /\ partitions = NewPartitions(np)
          /\ replicas = nr
          /\ heap = NewHeap(np, nr)
          /\ lock = [p \in (1..np) \X (1..nr) |-> Unlocked]
    /\ hashOf = HashTable
    /\ pc = [t \in Threads |-> "idle"]
    /\ key = [t \in Threads |-> NoKey]
    /\ val = [t \in Threads |-> NoData]
    /\ data = [t \in Threads |-> NoData]
    /\ part = [t \in Threads |-> NoPart]
    /\ idx = [t \in Threads |-> FirstReplica]
    /\ result = [t \in Threads |-> Pending]
    /\ committed = EmptyMap

Next ==
    \/ \E t \in Threads, k \in Keys : GetCall(t, k)
    \/ \E t \in Threads : GetLock(t)
    \/ \E t \in Threads : GetReturn(t)
    \/ \E t \in Threads, k \in Keys, v \in Values : PutCall(t, k, v)
    \/ \E t \in Threads : PutLockPrimary(t)
    \/ \E t \in Threads : PutInsertPrimary(t)
    \/ \E t \in Threads : PutLockReplica(t)
    \/ \E t \in Threads : PutInsertReplica(t)
    \/ \E t \in Threads : PutReturn(t)

-----------------------------------------------------------------------------
(* Construction as a step.  StorageServer::new returns Self, not a Result: *)
(* with no partitions both loops are skipped and a store without shards is *)
(* returned; with partitions and no replicas, replicas[0] is out of bounds *)
(* and new panics.                                                         *)

\* the arguments new is called with
PartitionCounts == 0..MaxPartitions
ReplicaCounts == 0..MaxReplicas

InitUnbuilt ==
    /\ server = "none"
    /\ poisoned = {}
    /\ partitions = <<>>
    /\ replicas = 0
    /\ heap = NewHeap(0, 0)
    /\ lock = [p \in DOMAIN NewHeap(0, 0) |-> Unlocked]
    /\ hashOf = HashTable
    /\ pc = [t \in Threads |-> "idle"]
    /\ key = [t \in Threads |-> NoKey]
    /\ val = [t \in Threads |-> NoData]
    /\ data = [t \in Threads |-> NoData]
    /\ part = [t \in Threads |-> NoPart]
    /\ idx = [t \in Threads |-> FirstReplica]
    /\ result = [t \in Threads |-> Pending]
    /\ committed = EmptyMap

New(num_partitions, num_replicas) ==
    /\ server = "none"
    /\ IF num_partitions > 0 /\ num_replicas = 0
       THEN /\ server' = "panicked"
            /\ UNCHANGED <<partitions, replicas, heap, lock>>
       ELSE /\ server' = "built"
            /\ partitions' = NewPartitions(num_partitions)
            /\ replicas' = num_replicas
            /\ heap' = NewHeap(num_partitions, num_replicas)
            /\ lock' = [p \in DOMAIN NewHeap(num_partitions, num_replicas) |-> Unlocked]
    /\ UNCHANGED <<poisoned, hashOf, pc, key, val, data, part, idx, result, committed, logVars>>

NextNew ==
    \/ \E np \in PartitionCounts, nr \in ReplicaCounts : New(np, nr)
    \/ \E t \in Threads, k \in Keys : GetCall(t, k)
    \/ \E t \in Threads : GetLock(t)
    \/ \E t \in Threads : GetReturn(t)
    \/ \E t \in Threads, k \in Keys, v \in Values : PutCall(t, k, v)
    \/ \E t \in Threads : PutLockPrimary(t)
    \/ \E t \in Threads : PutInsertPrimary(t)
    \/ \E t \in Threads : PutLockReplica(t)
    \/ \E t \in Threads : PutInsertReplica(t)
    \/ \E t \in Threads : PutReturn(t)

-----------------------------------------------------------------------------
(* A lock holder that fails.  A thread that panics while it holds write    *)
(* guards drops them as it unwinds: std's RwLock releases each lock and    *)
(* marks it poisoned, and every later read() or write() on it returns Err. *)

\* the partitions whose write guard the thread holds
HeldBy(t) == {p \in DOMAIN lock : lock[p].w = t}

HolderPanics(t) ==
    /\ pc[t] \in {"put_insert", "put_loop", "put_replica"}
    /\ pc' = [pc EXCEPT ![t] = "failed"]
    /\ lock' = [p \in DOMAIN lock |->
                   IF p \in HeldBy(t) THEN [lock[p] EXCEPT !.w = NoThread]
                   ELSE lock[p]]
    /\ poisoned' = poisoned \cup HeldBy(t)
    /\ DropLocals(t)
    /\ UNCHANGED <<server, partitions, replicas, heap, hashOf, result, committed, logVars>>

NextPoison ==
    \/ \E t \in Threads, k \in Keys : GetCall(t, k)
    \/ \E t \in Threads : GetLock(t)
    \/ \E t \in Threads : GetReturn(t)
    \/ \E t \in Threads, k \in Keys, v \in Values : PutCall(t, k, v)
    \/ \E t \in Threads : PutLockPrimary(t)
    \/ \E t \in Threads : PutInsertPrimary(t)
    \/ \E t \in Threads : PutLockReplica(t)
    \/ \E t \in Threads : PutInsertReplica(t)
    \/ \E t \in Threads : PutReturn(t)
    \/ \E t \in Threads : HolderPanics(t)

-----------------------------------------------------------------------------
(* Bytes stored without put.  The crate's own code can reach a partition's *)
(* map directly, as test_get does: it takes the primary's write guard,     *)
(* inserts bytes under the key and drops the guard.  put stores only what  *)
(* compress returns, so this is the one way undecodable bytes get stored.  *)

\* what is inserted: a block as compress makes it, and a block whose
\* literal is cut short
StoredBlocks == {compress(<<97>>), <<1, 0>>}

DirectInsert(t, k, bytes) ==
    /\ server = "built"
    /\ pc[t] = "idle"
    /\ CanRoute
    /\ CanWrite(get_partition(k))
    /\ ~Poisoned(get_partition(k))
    /\ heap' = [heap EXCEPT ![get_partition(k)].data = Insert(@, k, bytes)]
    /\ UNCHANGED <<server, poisoned, partitions, replicas, hashOf, lock, pc, key, val, data, part, idx, result, committed, logVars>>

NextCorrupt ==
    \/ \E t \in Threads, k \in Keys : GetCall(t, k)
    \/ \E t \in Threads : GetLock(t)
    \/ \E t \in Threads : GetReturn(t)
    \/ \E t \in Threads, k \in Keys, v \in Values : PutCall(t, k, v)
    \/ \E t \in Threads : PutLockPrimary(t)
    \/ \E t \in Threads : PutInsertPrimary(t)
    \/ \E t \in Threads : PutLockReplica(t)
    \/ \E t \in Threads : PutInsertReplica(t)
    \/ \E t \in Threads : PutReturn(t)
    \/ \E t \in Threads, k \in Keys, b \in StoredBlocks : DirectInsert(t, k, b)

-----------------------------------------------------------------------------
(* The store's claims.                                                     *)

\* the partitions of the replica set the thread's call works on
ReplicaSet(t) == heap[part[t]].replicas

Holds(p, k, bytes) == k \in DOMAIN heap[p].data /\ heap[p].data[k] = bytes

\* C1: a get(k) that returns after some put(k, .) has returned Ok returns
\* exactly the value of the most recent such put, whatever was put under
\* other keys in between.
C1_GetReturnsLastPut ==
    [][\A t \in Threads :
          (pc[t] = "get_read" /\ pc'[t] = "idle" /\ key[t] \in DOMAIN committed)
              => result'[t] = Some(committed[key[t]])]_vars

\* a get of "a" has returned, every key has since been put again with the
\* empty text, and a second get holds the read lock of such a key
C1_Witness ==
    \E t, u \in Threads :
        /\ pc[t] = "idle" /\ result[t] = Some(<<97>>)
        /\ \A k \in Keys : k \in DOMAIN committed /\ committed[k] = <<>>
        /\ pc[u] = "get_read" /\ GetValue(u) = Some(<<>>)

\* C11: a get(k) on a key that no put has stored returns the not-found
\* error, whatever other keys, keys of the same shard included, were put
\* before.
C11_AbsentKeyNotFound ==
    [][\A t \in Threads :
          (pc[t] = "get_read" /\ pc'[t] = "idle" /\ key[t] \notin DOMAIN committed)
              => result'[t] = None]_vars

\* a get holds the read lock for a key never put, in a partition that
\* stores another key of the same shard, and finds nothing
C11_Witness ==
    \E t \in Threads : \E other \in Keys :
        /\ pc[t] = "get_read" /\ key[t] \notin DOMAIN committed
        /\ other # key[t] /\ other \in DOMAIN committed
        /\ get_partition(other) = part[t]
        /\ Holds(part[t], other, compress(committed[other]))
        /\ GetValue(t) = None

\* C2: when put(k, v) returns Ok, each of the replica_count partitions of
\* the replica set of k's shard, the primary included, holds compress(v)
\* under k.
C2_FanOutComplete ==
    [][\A t \in Threads :
          (pc[t] = "put_loop" /\ pc'[t] = "idle")
              => /\ Len(ReplicaSet(t)) = replicas
                 /\ \A i \in 1..replicas :
                       /\ key[t] \in DOMAIN heap'[ReplicaSet(t)[i]].data
                       /\ heap'[ReplicaSet(t)[i]].data[key[t]] = compress(val[t])]_vars

\* a put of a non-empty value has returned on a store with two or more
\* replicas, and every partition of the shard holds its bytes
C2_Witness ==
    \E t \in Threads, k \in Keys :
        /\ pc[t] = "idle" /\ result[t] = OkUnit
        /\ replicas >= 2
        /\ k \in DOMAIN committed /\ committed[k] = <<97>>
        /\ \A i \in 1..replicas :
              Holds(<<get_partition(k)[1], i>>, k, compress(<<97>>))

\* the program points at which a thread reads or writes the primary's map
\* or is between put's first and last insert
FanOutPcs == {"put_insert", "put_loop", "put_replica"}
PrimaryPcs == FanOutPcs \cup {"get_read"}

\* C3: from before put's insert into the primary until after its insert
\* into the last replica the thread holds the primary's exclusive lock, it
\* holds the exclusive lock of the replica it is inserting into, the
\* replicas before that one are already written, and no other thread is at
\* a point where it reads or writes that primary.
C3_PrimaryHeldDuringFanOut ==
    \A t \in Threads :
        pc[t] \in FanOutPcs =>
            /\ lock[part[t]] = [w |-> t, r |-> {}]
            /\ \A u \in Threads \ {t} :
                  part[u] = part[t] => pc[u] \notin PrimaryPcs
            /\ pc[t] = "put_replica" => lock[ReplicaSet(t)[idx[t]]].w = t
            /\ pc[t] # "put_insert" =>
                  \A i \in 1..(idx[t] - 1) :
                     Holds(ReplicaSet(t)[i], key[t], data[t])
            /\ \A i \in 1..Len(ReplicaSet(t)) :
                  (i # 1 /\ ~(pc[t] = "put_replica" /\ i = idx[t]))
                      => lock[ReplicaSet(t)[i]].w # t

\* a put is between two replica inserts while another put and a get wait
\* for the same primary
C3_Witness ==
    \E t, u \in Threads :
        /\ pc[t] = "put_replica" /\ idx[t] = 2
        /\ pc[u] \in {"get_lock", "put_lock"} /\ part[u] = part[t]

\* C12: a get(k) on a key whose stored bytes fail to decompress returns
\* an outcome the caller can tell apart from the not-found outcome of an
\* absent key.
C12_CorruptionNotAbsence ==
    [][\A t \in Threads :
          (/\ pc[t] = "get_read" /\ pc'[t] = "idle"
           /\ key[t] \in DOMAIN heap[part[t]].data
           /\ ~decompress(heap[part[t]].data[key[t]]).ok)
              => result'[t] # None]_vars

\* C13: new fails with a configuration error when shard_count or
\* replica_count is 0, so that a store that new has returned, and that get
\* and put work on, has at least one shard and at least one replica.
C13_NoStoreWithoutShards ==
    server = "built" => Len(partitions) > 0 /\ replicas > 0

\* C14: after a lock holder has failed while holding a partition's lock,
\* a later get or put that needs the partition returns an explicit error:
\* no call panics on taking a lock.
C14_PoisonedLockIsAnError ==
    \A t \in Threads : pc[t] # "panicked"

\* C17: whenever the exclusive lock of a shard's primary is not held, all
\* replica_count partitions of the shard hold the same key-to-value map,
\* also when puts of different values to one key were issued concurrently.
C17_ReplicasAgreeWhenFree ==
    \A s \in 1..Len(partitions) :
        lock[partitions[s]].w = NoThread
            => /\ Len(heap[partitions[s]].replicas) = replicas
               /\ \A i \in 1..replicas :
                     heap[heap[partitions[s]].replicas[i]].data
                         = heap[partitions[s]].data

\* a put of a key has returned on a store with two replicas, a second put
\* of another value to the same key is waiting for the free primary, and
\* the replicas agree on the first value
C17_Witness ==
    \E t, u \in Threads :
        /\ replicas = 2
        /\ pc[t] = "idle" /\ result[t] = OkUnit
        /\ pc[u] = "put_lock" /\ lock[part[u]].w = NoThread
        /\ key[u] \in DOMAIN committed /\ val[u] # committed[key[u]]
        /\ \A i \in 1..2 :
              Holds(heap[part[u]].replicas[i], key[u], compress(committed[key[u]]))

\* the entry of key k in map m, None when the map has none
Entry(m, k) == IF k \in DOMAIN m THEN Some(m[k]) ELSE None

\* the thread whose put inserts in this step
Inserting(t) == pc[t] \in {"put_insert", "put_replica"} /\ pc'[t] = "put_loop"

\* C19: a put(k, v) changes the entry of k only, and only in partitions of
\* the replica set of k's shard: the entries of the other keys there, the
\* partitions of the other shards, the shard list and every replica set's
\* membership stay as they were.
C19_PutFrame ==
    [][/\ partitions' = partitions
       /\ DOMAIN heap' = DOMAIN heap
       /\ \A q \in DOMAIN heap :
             /\ heap'[q].replicas = heap[q].replicas
             /\ heap'[q].data # heap[q].data
                   => \E t \in Threads :
                         /\ Inserting(t)
                         /\ \E i \in 1..replicas :
                               q = heap[get_partition(key[t])].replicas[i]
                         /\ \A k \in Keys \ {key[t]} :
                               Entry(heap'[q].data, k) = Entry(heap[q].data, k)]_vars

\* a put has just inserted a new value for its key into a primary that
\* also stores the other key, whose entry is as it was committed
C19_Witness ==
    \E t \in Threads : \E other \in Keys \ {key[t]} :
        /\ pc[t] = "put_loop" /\ idx[t] = FirstReplica
        /\ key[t] \in DOMAIN committed /\ val[t] # committed[key[t]]
        /\ Holds(part[t], key[t], compress(val[t]))
        /\ other \in DOMAIN committed
        /\ Holds(part[t], other, compress(committed[other]))

\* C18: under fair scheduling every get and every put that was called
\* returns, whatever calls run concurrently on whatever keys: the primary
\* and replica lock acquisitions never deadlock.
C18_EveryCallReturns ==
    \A t \in Threads : (pc[t] # "idle") ~> (pc[t] = "idle")

\* a put that an earlier put preceded holds the primary and a replica of a
\* shard while the other thread's get waits for the same primary
C18_Witness ==
    \E t, u \in Threads :
        /\ committed # EmptyMap
        /\ pc[t] = "put_replica" /\ lock[part[t]].w = t
        /\ lock[heap[part[t]].replicas[idx[t]]].w = t
        /\ pc[u] = "get_lock" /\ part[u] = part[t]

-----------------------------------------------------------------------------
(* TransactionLog                                                          *)
(*                                                                         *)
(* A file's content is a sequence of segments: a record (its ordinal and   *)
(* its length in bytes), the newline rotate writes, or bytes that were in  *)
(* the file before the log was opened.  Records hold no newline byte.      *)
(* The log's own file name has a non-numeric stem, as in the source's      *)
(* tests; its directory may hold other files with numeric stems.           *)

\* BufWriter::with_capacity(8192, file)
BufCapacity == 8192

\* compact_threshold, as the fraction ThresholdNum / ThresholdDen
ThresholdNum == 1
ThresholdDen == 2

Record(n, len) == [id |-> n, len |-> len, nl |-> FALSE]
Newline == [id |-> 0, len |-> 1, nl |-> TRUE]
OldBytes == [id |-> 0, len |-> 1, nl |-> FALSE]

RECURSIVE ByteLen(_)
ByteLen(segs) ==
    IF Len(segs) = 0 THEN 0 ELSE segs[1].len + ByteLen(Tail(segs))

\* the inputs of the model
RecLens == (0..MaxRecLen) \cup {BufCapacity}
MaxSizes == {0, 2, 3, BufCapacity + 1}
MaxFiles == {0, 1, 2}
LogPaths == {[parent |-> "logs", name |-> <<"test_write", "log">>],
             [parent |-> "", name |-> <<"test_write", "log">>]}
OtherFiles == {<<"1", "log">>, <<"3", "log">>}
Numerals == <<"1", "2", "3">>

\* Path::set_extension on a file name split at its dots
set_extension(name, ext) ==
    IF Len(name) >= 2 THEN SubSeq(name, 1, Len(name) - 1) \o ext
    ELSE name \o ext

\* rotate's backup_path
BackupName(p) == set_extension(p.name, <<"log", "bak">>)

\* Path::extension is "log", and the file stem parses as a u32
IsNumeral(c) == \E i \in 1..Len(Numerals) : Numerals[i] = c
CleanupMatches(name) ==
    /\ Len(name) >= 2
    /\ name[Len(name)] = "log"
    /\ Len(name) = 2 /\ IsNumeral(name[1])

\* the order sort_by_key(|entry| entry.path()) gives the matching names
NumeralRank(c) == CHOOSE i \in 1..Len(Numerals) : Numerals[i] = c
PathLess(a, b) == NumeralRank(a[1]) < NumeralRank(b[1])

RECURSIVE SortNames(_)
SortNames(S) ==
    IF S = {} THEN <<>>
    ELSE LET least == CHOOSE a \in S : \A b \in S \ {a} : PathLess(a, b)
         IN <<least>> \o SortNames(S \ {least})

\* ---- the file system ----

Present(name) == name \in DOMAIN dir

\* an inode lives while a name or an open handle refers to it
Live(d, handles, ino) == ino \in handles \/ \E n \in DOMAIN d : d[n] = ino
Collect(d, handles, inos) ==
    [i \in {j \in DOMAIN inos : Live(d, handles, j)} |-> inos[i]]

FreshInode(inos) == CHOOSE i \in 1..(Cardinality(DOMAIN inos) + 1) : i \notin DOMAIN inos

Without(d, name) == [n \in (DOMAIN d) \ {name} |-> d[n]]
With(d, name, ino) == [n \in (DOMAIN d) \cup {name} |-> IF n = name THEN ino ELSE d[n]]

\* fs::rename(from, to), which replaces a file already at `to`
Renamed(d, from, to) == With(Without(d, from), to, d[from])

\* a write that lands in front of what the file holds
WrittenInFront(inos, ino, segs) == [inos EXCEPT ![ino] = segs \o @]

\* write(2) on a file opened for append
Written(inos, ino, segs) == [inos EXCEPT ![ino] = @ \o segs]

\* ---- TransactionLog::write ----

\* a rotation test that fires one byte too early
NeedsRotateOffByOne(buffered) == buffered + 1 >= max_size

\* line 32: self.file.buffer().len() as u64 >= self.max_size
NeedsRotate(buffered) == buffered >= max_size

\* BufWriter::write_all: what is in the buffer afterwards, and what has
\* been written through to the file
BufAfterWriteAll(buf, r) ==
    IF r.len < BufCapacity - ByteLen(buf) THEN buf \o <<r>>
    ELSE IF r.len >= BufCapacity THEN <<>>
    ELSE IF r.len > BufCapacity - ByteLen(buf) THEN <<r>>
    ELSE buf \o <<r>>

ThroughWriteAll(buf, r) ==
    IF r.len < BufCapacity - ByteLen(buf) THEN <<>>
    ELSE IF r.len >= BufCapacity THEN buf \o <<r>>
    ELSE IF r.len > BufCapacity - ByteLen(buf) THEN buf
    ELSE <<>>

WriteCall(len) ==
    LET r == Record(nwrites + 1, len)
        buf == BufAfterWriteAll(file.buf, r)
    IN
    /\ lpc = "idle"
    /\ nwrites < MaxWrites
    /\ nwrites' = nwrites + 1
    /\ records' = Append(records, r)
    /\ rec' = r
    /\ ret' = "pending"
    /\ rotated' = FALSE
    /\ lenBefore' = ByteLen(inodes[file.ino])
    /\ inodes' = Written(inodes, file.ino, ThroughWriteAll(file.buf, r))
    /\ file' = [file EXCEPT !.buf = buf]
    /\ lpc' = IF NeedsRotate(ByteLen(buf)) THEN "rotate" ELSE "flush"
    /\ UNCHANGED <<dir, path, max_size, max_files, newfile, appended,
                   backupNames, storeVars>>

\* line 35: self.file.flush(), then Ok(())
WriteFlush ==
    /\ lpc = "flush"
    /\ inodes' = Written(inodes, file.ino, file.buf)
    /\ file' = [file EXCEPT !.buf = <<>>]
    /\ appended' = (IF rotated THEN appended ELSE appended + rec.len)
    /\ ret' = "ok"
    /\ lpc' = "idle"
    /\ UNCHANGED <<dir, path, max_size, max_files, rec, newfile, nwrites, records,
                   rotated, lenBefore, backupNames, storeVars>>

\* ---- TransactionLog::rotate ----

\* lines 43-47: fs::rename(&self.path, &backup_path)?
RotateRename ==
    /\ lpc = "rotate"
    /\ IF Present(path.name)
       THEN /\ dir' = Renamed(dir, path.name, BackupName(path))
            /\ inodes' = Collect(dir', {file.ino}, inodes)
            /\ backupNames' = backupNames \o <<BackupName(path)>>
            /\ rotated' = TRUE
            /\ appended' = 0
            /\ lpc' = "open"
            /\ ret' = ret
       ELSE /\ UNCHANGED <<dir, inodes, backupNames, rotated, appended>>
            /\ ret' = "err_rename"
            /\ lpc' = "idle"
    /\ UNCHANGED <<file, path, max_size, max_files, rec, newfile, nwrites, records,
                   lenBefore, storeVars>>

\* lines 50-53: OpenOptions::new().create(true).append(true).open(&self.path)?
RotateOpen ==
    /\ lpc = "open"
    /\ IF Present(path.name)
       THEN /\ newfile' = dir[path.name]
            /\ UNCHANGED <<dir, inodes>>
       ELSE /\ newfile' = FreshInode(inodes)
            /\ dir' = With(dir, path.name, newfile')
            /\ inodes' = [i \in (DOMAIN inodes) \cup {newfile'} |->
                             IF i = newfile' THEN <<>> ELSE inodes[i]]
    /\ lpc' = "newline"
    /\ UNCHANGED <<file, path, max_size, max_files, rec, ret, nwrites, records, rotated,
                   lenBefore, appended, backupNames, storeVars>>

\* line 56: file.write_all(b"\n")?, unbuffered
RotateNewline ==
    /\ lpc = "newline"
    /\ inodes' = Written(inodes, newfile, <<Newline>>)
    /\ lpc' = "swap"
    /\ UNCHANGED <<dir, file, path, max_size, max_files, rec, newfile, ret,
                   nwrites, records, rotated, lenBefore, appended, backupNames, storeVars>>

\* a writer that is discarded without its flush
DroppedWriterNoFlush(inos, bw) == inos

\* BufWriter's Drop: the buffered bytes go to the file behind the handle
DroppedWriter(inos, bw) == Written(inos, bw.ino, bw.buf)

\* line 59: self.file = BufWriter::with_capacity(8192, file); the old
\* writer is dropped here, flushing into the file it still has open
RotateSwap ==
    /\ lpc = "swap"
    /\ file' = [ino |-> newfile, buf |-> <<>>]
    /\ inodes' = Collect(dir, {newfile}, DroppedWriter(inodes, file))
    /\ newfile' = 0
    /\ lpc' = "cleanup"
    /\ UNCHANGED <<dir, path, max_size, max_files, rec, ret, nwrites, records, rotated,
                   lenBefore, appended, backupNames, storeVars>>

\* ---- TransactionLog::cleanup ----

\* fs::read_dir(self.path.parent().unwrap()) fails on the empty parent of
\* a bare file name
CanReadDir(p) == p.parent # ""

\* lines 88-91: files.remove(0) and fs::remove_file while over max_files
RECURSIVE RemoveOldest(_, _)
RemoveOldest(d, files) ==
    IF Len(files) > max_files
    THEN RemoveOldest(Without(d, files[1]), Tail(files))
    ELSE d

CleanedDir(d) ==
    RemoveOldest(d, SortNames({n \in DOMAIN d : CleanupMatches(n)}))

\* line 62: self.cleanup()?
RotateCleanup ==
    /\ lpc = "cleanup"
    /\ IF CanReadDir(path)
       THEN /\ dir' = CleanedDir(dir)
            /\ inodes' = Collect(dir', {file.ino}, inodes)
            /\ lpc' = "compact"
            /\ ret' = ret
       ELSE /\ UNCHANGED <<dir, inodes>>
            /\ ret' = "err_cleanup"
            /\ lpc' = "idle"
    /\ UNCHANGED <<file, path, max_size, max_files, rec, newfile, nwrites, records,
                   rotated, lenBefore, appended, backupNames, storeVars>>

\* ---- TransactionLog::compact ----

\* read_until(b'\n'): the segments up to and including the first newline
RECURSIVE LineEnd(_, _)
LineEnd(segs, i) ==
    IF i > Len(segs) THEN Len(segs)
    ELSE IF segs[i].nl THEN i
    ELSE LineEnd(segs, i + 1)

\* lines 115-138: the loop over the lines and the final write; `buffer` is
\* cleared only when it has been written
RECURSIVE CompactLoop(_, _, _, _)
CompactLoop(input, buffer, total_size, out) ==
    IF Len(input) = 0 THEN out \o buffer
    ELSE LET n == LineEnd(input, 1)
             buffer2 == buffer \o SubSeq(input, 1, n)
             total2 == total_size + ByteLen(buffer2)
             rest == SubSeq(input, n + 1, Len(input))
         IN IF total2 * ThresholdDen >= max_size * ThresholdNum
            THEN CompactLoop(rest, <<>>, total2, out \o buffer2)
            ELSE CompactLoop(rest, buffer2, total2, out)

\* File::create(&self.path) has truncated the file before the reader's
\* first read
Truncated(segs) == <<>>

\* line 63: self.compact()?
RotateCompact ==
    /\ lpc = "compact"
    /\ IF Present(path.name)
       THEN /\ inodes' = [inodes EXCEPT ![dir[path.name]] =
                             CompactLoop(Truncated(@), <<>>, 0, <<>>)]
            /\ lpc' = "flush"
            /\ ret' = ret
       ELSE /\ UNCHANGED inodes
            /\ ret' = "err_compact"
            /\ lpc' = "idle"
    /\ UNCHANGED <<dir, file, path, max_size, max_files, rec, newfile, nwrites, records,
                   rotated, lenBefore, appended, backupNames, storeVars>>

\* ---- TransactionLog::new ----

InitLog ==
    /\ path \in LogPaths
    /\ max_size \in MaxSizes
    /\ max_files \in MaxFiles
    /\ \E others \in {{}, OtherFiles}, old \in {<<>>, <<OldBytes>>} :
          LET names == SortNames(others) IN
          /\ dir = [n \in others \cup {path.name} |->
                       IF n = path.name THEN 1 ELSE 1 + NumeralRank(n[1])]
          /\ inodes = [i \in {dir[n] : n \in DOMAIN dir} |->
                          IF i = 1 THEN old ELSE <<OldBytes>>]
    /\ file = [ino |-> 1, buf |-> <<>>]
    /\ lpc = "idle"
    /\ rec = Record(0, 0)
    /\ newfile = 0
    /\ ret = "none"
    /\ nwrites = 0
    /\ records = <<>>
    /\ rotated = FALSE
    /\ lenBefore = 0
    /\ appended = 0
    /\ backupNames = <<>>

\* the store while the log runs, and the log while the store runs
InitStoreIdle ==
    /\ server = "built"
    /\ poisoned = {}
    /\ partitions = NewPartitions(1)
    /\ replicas = 1
    /\ heap = NewHeap(1, 1)
    /\ lock = [p \in {<<1, 1>>} |-> Unlocked]
    /\ hashOf = HashTable
    /\ pc = [t \in Threads |-> "idle"]
    /\ key = [t \in Threads |-> NoKey]
    /\ val = [t \in Threads |-> NoData]
    /\ data = [t \in Threads |-> NoData]
    /\ part = [t \in Threads |-> NoPart]
    /\ idx = [t \in Threads |-> FirstReplica]
    /\ result = [t \in Threads |-> Pending]
    /\ committed = EmptyMap

InitLogIdle ==
    /\ path = [parent |-> "logs", name |-> <<"test_write", "log">>]
    /\ max_size = 3
    /\ max_files = 1
    /\ dir = [n \in {path.name} |-> 1]
    /\ inodes = [i \in {1} |-> <<>>]
    /\ file = [ino |-> 1, buf |-> <<>>]
    /\ lpc = "idle"
    /\ rec = Record(0, 0)
    /\ newfile = 0
    /\ ret = "none"
    /\ nwrites = 0
    /\ records = <<>>
    /\ rotated = FALSE
    /\ lenBefore = 0
    /\ appended = 0
    /\ backupNames = <<>>

NextLog ==
    \/ \E len \in RecLens : WriteCall(len)
    \/ WriteFlush
    \/ RotateRename
    \/ RotateOpen
    \/ RotateNewline
    \/ RotateSwap
    \/ RotateCleanup
    \/ RotateCompact

InitLogSpec == InitLog /\ InitStoreIdle
SpecLog == InitLogSpec /\ [][NextLog]_vars

\* ---- the file system refusing an operation ----

\* fs::rename returns Err: line 47 returns it, nothing has changed
RotateRenameFails ==
    /\ lpc = "rotate"
    /\ ret' = "err_rename"
    /\ lpc' = "idle"
    /\ UNCHANGED <<dir, inodes, file, path, max_size, max_files, rec, newfile,
                   nwrites, records, rotated, lenBefore, appended, backupNames,
                   storeVars>>

\* OpenOptions::open returns Err: line 53 returns it after the rename of
\* line 47 has been done; self.file is still the old writer
RotateOpenFails ==
    /\ lpc = "open"
    /\ ret' = "err_open"
    /\ lpc' = "idle"
    /\ UNCHANGED <<dir, inodes, file, path, max_size, max_files, rec, newfile,
                   nwrites, records, rotated, lenBefore, appended, backupNames,
                   storeVars>>

NextLogFault ==
    \/ \E len \in RecLens : WriteCall(len)
    \/ WriteFlush
    \/ RotateRename
    \/ RotateOpen
    \/ RotateNewline
    \/ RotateSwap
    \/ RotateCleanup
    \/ RotateCompact
    \/ RotateRenameFails
    \/ RotateOpenFails

SpecLogFault == InitLogSpec /\ [][NextLogFault]_vars

-----------------------------------------------------------------------------
(* The log's claims.                                                       *)

ActiveLen == ByteLen(inodes[file.ino])
InFile(r, name) ==
    Present(name) /\ \E i \in 1..Len(inodes[dir[name]]) : inodes[dir[name]][i] = r
Returned == lpc = "idle" /\ nwrites > 0

\* the files in the directory that rotations have put there
BackupFiles == {n \in DOMAIN dir : \E i \in 1..Len(backupNames) : backupNames[i] = n}

\* C4: when a write has rotated the log, the record it wrote is afterwards
\* in the backup file or in the active file, and the backup file holds all
\* the bytes the active file held before plus that record: the rotation
\* loses nothing.
C4_RecordSurvivesRotation ==
    (Returned /\ rotated) =>
        /\ InFile(rec, BackupName(path)) \/ InFile(rec, path.name)
        /\ ByteLen(inodes[dir[BackupName(path)]]) = lenBefore + rec.len

\* a write of a non-empty record onto a non-empty file has rotated it and
\* returned Ok, and the record is in the backup
C4_Witness ==
    /\ Returned /\ rotated /\ ret = "ok"
    /\ rec.len > 0 /\ lenBefore > 0
    /\ InFile(rec, BackupName(path))

\* C5: in a rotation the buffered bytes are flushed to the active file
\* before it is renamed, so that after the rename and until the old writer
\* is replaced nothing unflushed is left; the fresh file is open at the
\* path before retention runs.
C5_FlushBeforeRename ==
    /\ lpc \in {"open", "newline", "swap"} => file.buf = <<>>
    /\ lpc \in {"cleanup", "compact"} =>
          Present(path.name) /\ dir[path.name] = file.ino

\* C6: once more rotations than max_files have happened, exactly max_files
\* backup files exist, those of the max_files latest rotations.
C6_RetentionKeepsNewest ==
    (Returned /\ ret = "ok" /\ Len(backupNames) > max_files) =>
        /\ Cardinality(BackupFiles) = max_files
        /\ BackupFiles =
              {backupNames[i] : i \in (Len(backupNames) - max_files + 1)..Len(backupNames)}

\* C7: the backup name of a rotation differs from the active file's name
\* and from the backup name of every earlier rotation.
C7_BackupNamesDistinct ==
    \A j \in 1..Len(backupNames) :
        /\ backupNames[j] # path.name
        /\ \A i \in 1..(j - 1) : backupNames[i] # backupNames[j]

\* C8: a write of a record of N bytes, N below max_size, returns Ok, does
\* not rotate and leaves the active file, still the file at the log's
\* path, exactly N bytes longer; on a fresh log it is N bytes long.
C8_SmallWriteAppends ==
    (Returned /\ rec.len < max_size) =>
        /\ ret = "ok"
        /\ ~rotated
        /\ Present(path.name) /\ dir[path.name] = file.ino
        /\ file.buf = <<>>
        /\ ActiveLen = lenBefore + rec.len
        /\ (nwrites = 1 /\ lenBefore = 0) => ActiveLen = rec.len

\* a second record, shorter than max_size, has been written after a first
C8_Witness ==
    /\ Returned /\ ret = "ok" /\ nwrites >= 2
    /\ rec.len > 0 /\ rec.len < max_size
    /\ lenBefore > 0 /\ ActiveLen = lenBefore + rec.len

\* C9: a write that brings the bytes written to the active file since its
\* creation or last rotation to max_size or beyond rotates the log: after
\* a write has returned, fewer than max_size bytes have been written since
\* the last rotation.
C9_AccumulatedSizeRotates ==
    Returned => (appended = 0 \/ appended < max_size)

\* C10: after a write of a record longer than max_size has returned Ok,
\* the file at the log's path is empty.
C10_ActiveEmptyAfterBigWrite ==
    (Returned /\ ret = "ok" /\ rec.len > max_size) =>
        Present(path.name) /\ ByteLen(inodes[dir[path.name]]) = 0

\* C15: when a rotation fails at the rename of the active file or at the
\* opening of the new one, write returns the error and the file that was
\* active is still at the log's path, holding every byte flushed to it
\* before.
C15_FailedRotationKeepsActive ==
    (Returned /\ ret \in {"err_rename", "err_open"}) =>
        /\ Present(path.name)
        /\ dir[path.name] = file.ino
        /\ ByteLen(inodes[dir[path.name]]) >= lenBefore

\* C16: a failure inside cleanup does not fail the write that triggered
\* the rotation: no write returns cleanup's error.
C16_CleanupFailureNotReturned ==
    Returned => ret # "err_cleanup"

\* the records in a file, without the newlines rotate writes and the bytes
\* the file held before the log was opened
RecordsOf(segs) == SelectSeq(segs, LAMBDA x : x.id > 0)
RecordsIn(name) == IF Present(name) THEN RecordsOf(inodes[dir[name]]) ELSE <<>>

\* the stored records, read from the backup file and then the active file
Stored == RecordsIn(BackupName(path)) \o RecordsIn(path.name)

\* C20: the records still stored, read from the backup and then from the
\* active file, are in the order in which they were written, and each is
\* the record that write was given: no write or rotation reorders or
\* alters an earlier record.
C20_StoredInWriteOrder ==
    /\ \A i \in 1..Len(Stored) :
          /\ Stored[i].id \in 1..Len(records)
          /\ Stored[i] = records[Stored[i].id]
    /\ \A i, j \in 1..Len(Stored) : i < j => Stored[i].id < Stored[j].id

\* a write has rotated the log and returned, and two later writes have
\* returned: the backup holds the earlier record, the active file the two
\* written since
C20_Witness ==
    /\ Returned /\ ret = "ok"
    /\ Len(RecordsIn(BackupName(path))) >= 1
    /\ Len(RecordsIn(path.name)) >= 2
    /\ Len(backupNames) >= 1

Init == InitStore /\ InitLogIdle
Spec == Init /\ [][Next]_vars

\* the store under fair scheduling: a thread inside a call keeps running,
\* and a thread waiting for a lock that is free again and again gets it;
\* nothing obliges a thread to start a call
Fairness ==
    \A t \in Threads :
        /\ SF_vars(GetLock(t))
        /\ WF_vars(GetReturn(t))
        /\ SF_vars(PutLockPrimary(t))
        /\ WF_vars(PutInsertPrimary(t))
        /\ SF_vars(PutLockReplica(t))
        /\ WF_vars(PutInsertReplica(t))
        /\ WF_vars(PutReturn(t))

\* locks are taken and released alike whatever the value: one value is put
PutValues == {<<97>>}

NextFair ==
    \/ \E t \in Threads, k \in Keys : GetCall(t, k)
    \/ \E t \in Threads : GetLock(t)
    \/ \E t \in Threads : GetReturn(t)
    \/ \E t \in Threads, k \in Keys, v \in PutValues : PutCall(t, k, v)
    \/ \E t \in Threads : PutLockPrimary(t)
    \/ \E t \in Threads : PutInsertPrimary(t)
    \/ \E t \in Threads : PutLockReplica(t)
    \/ \E t \in Threads : PutInsertReplica(t)
    \/ \E t \in Threads : PutReturn(t)

SpecFair == Init /\ [][NextFair]_vars /\ Fairness

\* the store from its construction on
InitNew == InitUnbuilt /\ InitLogIdle
SpecNew == InitNew /\ [][NextNew]_vars

\* the store with threads that fail while they hold a lock
SpecPoison == Init /\ [][NextPoison]_vars

\* the store with bytes inserted beside put
SpecCorrupt == Init /\ [][NextCorrupt]_vars

=============================================================================
